---- MODULE Spec2Model ----
(***************************************************************************)
(* VIPN tunnel lifecycle: the connection-tracking commands apply_config,    *)
(* disconnect and get_connection_status of IMPLEMENTATION_GUIDE.md, run as  *)
(* concurrent command invocations over one process-wide ACTIVE_CONNECTION,  *)
(* on top of the WireGuardPlatform capability (wg-quick up / down / show).  *)
(***************************************************************************)
EXTENDS Naturals, FiniteSets, Sequences, TLC

\* Number of command invocations that may be in flight at once.
MaxCalls == 2
\* Number of interface names the host can hand out (utun0, utun1, ...).
MaxIfaces == 2

Procs == 1..MaxCalls
IfNames == 1..MaxIfaces

\* What a read of ACTIVE_CONNECTION yields for the interface when it races
\* with a write: a name that is no interface of the host.
Garbage == 0

\* WireGuardConfig.name of the configs a caller may hand to apply_config.
ConfigNames == {"US East Server", "Manual Config"}

VARIABLES
    host,               \* what create_platform / is_wireguard_installed find
    ACTIVE_CONNECTION,  \* Option<(interface, config_name)>: <<>> or <<record>>
    interfaces,         \* tunnel interfaces up on the host, with their config
    artifacts,          \* temporary config files on disk, by interface name
    calls,              \* per invocation: command, position, locals, result
    serial,             \* no two apply / disconnect have overlapped so far
    quiet,              \* the statuses when no apply / disconnect was running
    obs,                \* the statuses since a status call was invoked
    connectionStatus,   \* App state: the status the UI shows
    currentConfig,      \* App state: the selected config, <<>> or <<name>>
    isLoading,          \* App state: disables the buttons
    showServerList,     \* App state: the server items are on screen
    mounted,            \* the App's mount effect has run
    handlers,           \* per invocation: the App handler awaiting it
    manualConfig,       \* App state: the text in the manual config box
    parsedConfig,       \* the fields of the config handleApplyManualConfig set
    statusMessage,      \* what handleApplyManualConfig last showed
    sent                \* per invocation: the config handed to apply_config

ui == <<connectionStatus, currentConfig, isLoading, showServerList, mounted,
        handlers>>

vars ==
    <<host, ACTIVE_CONNECTION, interfaces, artifacts, calls, serial, quiet, obs,
      connectionStatus, currentConfig, isLoading, showServerList, mounted,
      handlers, manualConfig, parsedConfig, statusMessage, sent>>

paste == <<manualConfig, parsedConfig, statusMessage, sent>>

----------------------------------------------------------------------------
\* Values

None == <<>>
Some(x) == <<x>>

Connection(i, n) == [interface |-> i, config_name |-> n]

Disconnected == [connected |-> FALSE, current_config |-> None, interface |-> None]
ConnectedVia(r) ==
    [connected |-> TRUE, current_config |-> Some(r.config_name),
     interface |-> Some(r.interface)]

NoResult == [ok |-> FALSE, kind |-> "pending", arg |-> Garbage]
Ok(kind, arg) == [ok |-> TRUE, kind |-> kind, arg |-> arg]
Err(kind) == [ok |-> FALSE, kind |-> kind, arg |-> Garbage]

Idle ==
    [op |-> "idle", pc |-> "idle", config |-> "", iface |-> None,
     outcome |-> "", result |-> NoResult, status |-> Disconnected]

HelperFailures == {"PermissionDenied", "ExecutionFailed", "TimedOut"}

----------------------------------------------------------------------------
\* The platform capability

UpNames == {r.interface : r \in interfaces}

FreeNames == IfNames \ (UpNames \cup artifacts)

Lowest(S) == CHOOSE x \in S : \A y \in S : x <= y

\* platform.get_status(interface): the named interface if one is given,
\* else any tunnel interface that is up.
PlatformGetStatus(ifs, ifaceOpt) ==
    LET m == IF ifaceOpt = None THEN ifs
             ELSE {r \in ifs : r.interface = ifaceOpt[1]}
    IN  IF m = {} THEN {Disconnected} ELSE {ConnectedVia(r) : r \in m}

----------------------------------------------------------------------------
\* ACTIVE_CONNECTION is a static mut: reads and writes are unsynchronized.

Writers == {q \in Procs : calls[q].pc \in {"tracking", "clearing"}}

NewValue(q) ==
    IF calls[q].pc = "tracking"
    THEN Some(Connection(calls[q].iface[1], calls[q].config))
    ELSE None

Torn == Some(Connection(Garbage, ""))

\* The values a read may yield: the stored one, or, racing with a write,
\* that write's value or a torn one.
ReadActive ==
    {ACTIVE_CONNECTION}
        \cup {NewValue(q) : q \in Writers}
        \cup (IF Writers = {} THEN {} ELSE {Torn})

Mix(v, w) ==
    IF v # None /\ w # None
    THEN {Some(Connection(v[1].interface, w[1].config_name)),
          Some(Connection(w[1].interface, v[1].config_name))}
    ELSE {}

\* The values a write by p may leave: its own, or, racing with another
\* write, a mix of the two.
WriteOutcomes(p) ==
    {NewValue(p)}
        \cup UNION {Mix(NewValue(p), NewValue(q)) : q \in Writers \ {p}}

IfaceOf(ac) == IF ac = None THEN None ELSE Some(ac[1].interface)

\* The status the manager has at this instant.
StatusNow(ac, ifs) == PlatformGetStatus(ifs, IfaceOf(ac))

----------------------------------------------------------------------------
\* Invocations

backend == <<host, ACTIVE_CONNECTION, interfaces, artifacts>>

IsMutation(c) == c.op \in {"apply_config", "disconnect"}

InFlight(c) == c.op # "idle" /\ c.pc # "done"

Finish(p, res) ==
    calls' = [calls EXCEPT ![p].pc = "done", ![p].result = res]

Step(p, pc) == calls' = [calls EXCEPT ![p].pc = pc]

Invoke(p, call) == calls' = [calls EXCEPT ![p] = call]

InvokeApply(p, c) ==
    /\ calls[p].op = "idle"
    /\ Invoke(p, [Idle EXCEPT !.op = "apply_config", !.pc = "start",
                              !.config = c])
    /\ UNCHANGED backend

InvokeDisconnect(p) ==
    /\ calls[p].op = "idle"
    /\ Invoke(p, [Idle EXCEPT !.op = "disconnect", !.pc = "start"])
    /\ UNCHANGED backend

InvokeGetStatus(p) ==
    /\ calls[p].op = "idle"
    /\ Invoke(p, [Idle EXCEPT !.op = "get_connection_status", !.pc = "start"])
    /\ UNCHANGED backend

\* The caller takes the result.
Return(p) ==
    /\ calls[p].pc = "done"
    /\ calls' = [calls EXCEPT ![p] = Idle]
    /\ UNCHANGED backend

----------------------------------------------------------------------------
\* apply_config

\* A variant of apply_config_start without the is_wireguard_installed()
\* check.
apply_config_start_unchecked(p) ==
    /\ calls[p].op = "apply_config" /\ calls[p].pc = "start"
    /\ \/ host = "unsupported" /\ Finish(p, Err("PlatformNotSupported"))
       \/ host # "unsupported" /\ Step(p, "write_config")
    /\ UNCHANGED backend

\* create_platform()?, then the is_wireguard_installed() check.
apply_config_start(p) ==
    /\ calls[p].op = "apply_config" /\ calls[p].pc = "start"
    /\ \/ host = "unsupported" /\ Finish(p, Err("PlatformNotSupported"))
       \/ host = "not_installed" /\ Finish(p, Err("NotInstalled"))
       \/ host = "ready" /\ Step(p, "write_config")
    /\ UNCHANGED backend

\* platform.apply_config, first half: the config goes to a temporary file
\* named after the interface wg-quick will create.
platform_write_config(p) ==
    /\ calls[p].op = "apply_config" /\ calls[p].pc = "write_config"
    /\ \/ /\ FreeNames # {}
          /\ artifacts' = artifacts \cup {Lowest(FreeNames)}
          /\ calls' = [calls EXCEPT ![p].pc = "wg_quick_up",
                                    ![p].iface = Some(Lowest(FreeNames))]
       \/ /\ FreeNames = {}
          /\ calls' = [calls EXCEPT ![p].pc = "track",
                                    ![p].outcome = "ExecutionFailed"]
          /\ UNCHANGED artifacts
    /\ UNCHANGED <<host, ACTIVE_CONNECTION, interfaces>>

\* A variant of platform_wg_quick_up whose failed run leaves the config file
\* where it was written.
platform_wg_quick_up_leaving_file(p) ==
    /\ calls[p].op = "apply_config" /\ calls[p].pc = "wg_quick_up"
    /\ \/ /\ interfaces' = interfaces \cup
                    {Connection(calls[p].iface[1], calls[p].config)}
          /\ calls' = [calls EXCEPT ![p].pc = "track", ![p].outcome = "ok"]
       \/ \E e \in HelperFailures :
            /\ calls' = [calls EXCEPT ![p].pc = "track", ![p].outcome = e]
            /\ UNCHANGED interfaces
    /\ UNCHANGED <<host, ACTIVE_CONNECTION, artifacts>>

\* platform.apply_config, second half: wg-quick up <config file>; a failed
\* run leaves no interface and no config file.
platform_wg_quick_up(p) ==
    /\ calls[p].op = "apply_config" /\ calls[p].pc = "wg_quick_up"
    /\ \/ /\ interfaces' = interfaces \cup
                    {Connection(calls[p].iface[1], calls[p].config)}
          /\ calls' = [calls EXCEPT ![p].pc = "track", ![p].outcome = "ok"]
          /\ UNCHANGED artifacts
       \/ \E e \in HelperFailures :
            /\ artifacts' = artifacts \ {calls[p].iface[1]}
            /\ calls' = [calls EXCEPT ![p].pc = "track", ![p].outcome = e]
            /\ UNCHANGED interfaces
    /\ UNCHANGED <<host, ACTIVE_CONNECTION>>

\* A variant of apply_config_track without the ?: the interface is tracked
\* whatever the platform returned.
apply_config_track_unchecked(p) ==
    /\ calls[p].op = "apply_config" /\ calls[p].pc = "track"
    /\ IF calls[p].iface # None
       THEN Step(p, "tracking")
       ELSE Finish(p, Err(calls[p].outcome))
    /\ UNCHANGED backend

\* A variant of apply_config_track that runs wg-quick up again after a
\* failure of the helper.
apply_config_track_retrying(p) ==
    /\ calls[p].op = "apply_config" /\ calls[p].pc = "track"
    /\ IF calls[p].outcome = "ok"
       THEN Step(p, "tracking")
       ELSE IF calls[p].iface # None
            THEN calls' = [calls EXCEPT ![p].pc = "wg_quick_up"]
            ELSE Finish(p, Err(calls[p].outcome))
    /\ UNCHANGED backend

\* .map_err(|e| e.to_string())? on what the platform returned.
apply_config_track(p) ==
    /\ calls[p].op = "apply_config" /\ calls[p].pc = "track"
    /\ IF calls[p].outcome = "ok"
       THEN Step(p, "tracking")
       ELSE Finish(p, Err(calls[p].outcome))
    /\ UNCHANGED backend

\* ACTIVE_CONNECTION = Some((interface, config.name)); Ok("Connected via ..").
apply_config_tracked(p) ==
    /\ calls[p].op = "apply_config" /\ calls[p].pc = "tracking"
    /\ ACTIVE_CONNECTION' \in WriteOutcomes(p)
    /\ Finish(p, Ok("Connected via", calls[p].iface[1]))
    /\ UNCHANGED <<host, interfaces, artifacts>>

----------------------------------------------------------------------------
\* disconnect

\* A variant of disconnect_start whose else branch answers
\* Ok("Disconnected successfully").
disconnect_start_lenient(p) ==
    /\ calls[p].op = "disconnect" /\ calls[p].pc = "start"
    /\ \/ host = "unsupported" /\ Finish(p, Err("PlatformNotSupported"))
       \/ /\ host # "unsupported"
          /\ \E r \in ReadActive :
                IF r = None
                THEN Finish(p, Ok("Disconnected successfully", Garbage))
                ELSE calls' = [calls EXCEPT ![p].pc = "wg_quick_down",
                                            ![p].iface = IfaceOf(r)]
    /\ UNCHANGED backend

\* create_platform()?, then the read of the active interface; with none,
\* Err("No active connection").
disconnect_start(p) ==
    /\ calls[p].op = "disconnect" /\ calls[p].pc = "start"
    /\ \/ host = "unsupported" /\ Finish(p, Err("PlatformNotSupported"))
       \/ /\ host # "unsupported"
          /\ \E r \in ReadActive :
                IF r = None
                THEN Finish(p, Err("No active connection"))
                ELSE calls' = [calls EXCEPT ![p].pc = "wg_quick_down",
                                            ![p].iface = IfaceOf(r)]
    /\ UNCHANGED backend

\* platform.disconnect: wg-quick down <interface>, which removes the
\* interface and its config file; a timed-out run may or may not have
\* removed the interface.
platform_wg_quick_down(p) ==
    /\ calls[p].op = "disconnect" /\ calls[p].pc = "wg_quick_down"
    /\ LET i == calls[p].iface[1]
           up == {r \in interfaces : r.interface = i}
           returned(e) ==
               calls' = [calls EXCEPT ![p].pc = "clear", ![p].outcome = e]
       IN  \/ /\ up = {}
              /\ returned("InterfaceNotFound")
              /\ UNCHANGED <<interfaces, artifacts>>
           \/ /\ up # {}
              /\ interfaces' = interfaces \ up
              /\ artifacts' = artifacts \ {i}
              /\ returned("ok")
           \/ /\ up # {}
              /\ \E e \in {"PermissionDenied", "ExecutionFailed"} : returned(e)
              /\ UNCHANGED <<interfaces, artifacts>>
           \/ /\ up # {}
              /\ returned("TimedOut")
              /\ interfaces' \in {interfaces, interfaces \ up}
              /\ UNCHANGED artifacts
    /\ UNCHANGED <<host, ACTIVE_CONNECTION>>

\* A variant of disconnect_clear that runs wg-quick down again after a
\* failure.
disconnect_clear_retrying(p) ==
    /\ calls[p].op = "disconnect" /\ calls[p].pc = "clear"
    /\ IF calls[p].outcome = "ok"
       THEN Step(p, "clearing")
       ELSE calls' = [calls EXCEPT ![p].pc = "wg_quick_down",
                                   ![p].outcome = ""]
    /\ UNCHANGED backend

\* .map_err(|e| e.to_string())? on what the platform returned.
disconnect_clear(p) ==
    /\ calls[p].op = "disconnect" /\ calls[p].pc = "clear"
    /\ IF calls[p].outcome = "ok"
       THEN Step(p, "clearing")
       ELSE Finish(p, Err(calls[p].outcome))
    /\ UNCHANGED backend

\* ACTIVE_CONNECTION = None; Ok("Disconnected successfully").
disconnect_cleared(p) ==
    /\ calls[p].op = "disconnect" /\ calls[p].pc = "clearing"
    /\ ACTIVE_CONNECTION' \in WriteOutcomes(p)
    /\ Finish(p, Ok("Disconnected successfully", Garbage))
    /\ UNCHANGED <<host, interfaces, artifacts>>

----------------------------------------------------------------------------
\* get_connection_status

\* A variant of get_connection_status_start that forgets the connection it
\* has read.
get_connection_status_start_forgetting(p) ==
    /\ calls[p].op = "get_connection_status" /\ calls[p].pc = "start"
    /\ \/ /\ host = "unsupported"
          /\ calls' = [calls EXCEPT ![p].pc = "done", ![p].status = Disconnected]
       \/ /\ host # "unsupported"
          /\ \E r \in ReadActive :
                calls' = [calls EXCEPT ![p].pc = "get_status",
                                       ![p].iface = IfaceOf(r)]
    /\ ACTIVE_CONNECTION' = None
    /\ UNCHANGED <<host, interfaces, artifacts>>

\* create_platform() (a failure is the disconnected status), then the read
\* of the active interface.
get_connection_status_start(p) ==
    /\ calls[p].op = "get_connection_status" /\ calls[p].pc = "start"
    /\ \/ /\ host = "unsupported"
          /\ calls' = [calls EXCEPT ![p].pc = "done", ![p].status = Disconnected]
       \/ /\ host # "unsupported"
          /\ \E r \in ReadActive :
                calls' = [calls EXCEPT ![p].pc = "get_status",
                                       ![p].iface = IfaceOf(r)]
    /\ UNCHANGED backend

\* platform.get_status(interface), returned as it is.
platform_get_status(p) ==
    /\ calls[p].op = "get_connection_status" /\ calls[p].pc = "get_status"
    /\ \E s \in PlatformGetStatus(interfaces, calls[p].iface) :
            calls' = [calls EXCEPT ![p].pc = "done", ![p].status = s]
    /\ UNCHANGED backend

----------------------------------------------------------------------------
\* App.tsx: the component's state and its handlers, each cut at its await.

\* The configs the server list offers.
ServerConfigNames == {"US East Server"}

\* A handler awaiting a command keeps the connectionStatus and currentConfig
\* of the render it was created in.
NoHandler ==
    [name |-> "none", connectionStatus |-> Disconnected, currentConfig |-> None]

Free(p) == calls[p].op = "idle" /\ handlers[p].name = "none"

\* The slot a new invoke() takes.
Slot(p) == (\E q \in Procs : Free(q)) /\ p = Lowest({q \in Procs : Free(q)})

Await(p, name, call) ==
    /\ calls' = [calls EXCEPT ![p] = call]
    /\ handlers' = [handlers EXCEPT ![p] =
            [name |-> name, connectionStatus |-> connectionStatus,
             currentConfig |-> currentConfig]]

Settled(p, name) == handlers[p].name = name /\ calls[p].pc = "done"

\* loadConnectionStatus up to its await: invoke("get_connection_status").
loadConnectionStatus(p) ==
    Await(p, "loadConnectionStatus",
          [Idle EXCEPT !.op = "get_connection_status", !.pc = "start"])

\* setConnectionStatus(status) with what the command returned.
loadConnectionStatus_settled(p) ==
    /\ Settled(p, "loadConnectionStatus")
    /\ connectionStatus' = calls[p].status
    /\ calls' = [calls EXCEPT ![p] = Idle]
    /\ handlers' = [handlers EXCEPT ![p] = NoHandler]
    /\ UNCHANGED <<currentConfig, isLoading, showServerList, mounted, backend>>

\* useEffect(() => { loadConnectionStatus(); }, []).
useEffect(p) ==
    /\ ~mounted /\ Slot(p)
    /\ mounted' = TRUE
    /\ loadConnectionStatus(p)
    /\ UNCHANGED <<connectionStatus, currentConfig, isLoading, showServerList,
                   backend>>

\* A variant of handleConnect bound to the button whatever it reads.
handleConnect_always(p) ==
    /\ mounted /\ ~isLoading /\ Slot(p)
    /\ IF currentConfig = None
       THEN UNCHANGED <<isLoading, calls, handlers>>
       ELSE /\ isLoading' = TRUE
            /\ Await(p, "handleConnect",
                     [Idle EXCEPT !.op = "apply_config", !.pc = "start",
                                  !.config = currentConfig[1]])
    /\ UNCHANGED <<connectionStatus, currentConfig, showServerList, mounted,
                   backend>>

\* A variant of handleConnect without the check of currentConfig.
handleConnect_unchecked(p) ==
    /\ mounted /\ ~isLoading /\ ~connectionStatus.connected /\ Slot(p)
    /\ isLoading' = TRUE
    /\ Await(p, "handleConnect",
             [Idle EXCEPT !.op = "apply_config", !.pc = "start",
                          !.config = IF currentConfig = None THEN ""
                                     ELSE currentConfig[1]])
    /\ UNCHANGED <<connectionStatus, currentConfig, showServerList, mounted,
                   backend>>

\* The connect button while it reads "Connect": without a config only a
\* message is shown; with one, setIsLoading(true) and invoke("apply_config").
handleConnect(p) ==
    /\ mounted /\ ~isLoading /\ ~connectionStatus.connected /\ Slot(p)
    /\ IF currentConfig = None
       THEN UNCHANGED <<isLoading, calls, handlers>>
       ELSE /\ isLoading' = TRUE
            /\ Await(p, "handleConnect",
                     [Idle EXCEPT !.op = "apply_config", !.pc = "start",
                                  !.config = currentConfig[1]])
    /\ UNCHANGED <<connectionStatus, currentConfig, showServerList, mounted,
                   backend>>

\* After the await: on success setConnectionStatus({...connectionStatus,
\* connected: true, current_config: currentConfig.name}); finally
\* setIsLoading(false) and loadConnectionStatus().
handleConnect_settled(p) ==
    /\ Settled(p, "handleConnect")
    /\ connectionStatus' =
          IF calls[p].result.ok
          THEN [handlers[p].connectionStatus EXCEPT
                    !.connected = TRUE,
                    !.current_config = handlers[p].currentConfig]
          ELSE connectionStatus
    /\ isLoading' = FALSE
    /\ loadConnectionStatus(p)
    /\ UNCHANGED <<currentConfig, showServerList, mounted, backend>>

\* The connect button while it reads "Disconnect": setIsLoading(true) and
\* invoke("disconnect").
handleDisconnect(p) ==
    /\ mounted /\ ~isLoading /\ connectionStatus.connected /\ Slot(p)
    /\ isLoading' = TRUE
    /\ Await(p, "handleDisconnect",
             [Idle EXCEPT !.op = "disconnect", !.pc = "start"])
    /\ UNCHANGED <<connectionStatus, currentConfig, showServerList, mounted,
                   backend>>

\* After the await: on success setConnectionStatus({...connectionStatus,
\* connected: false, current_config: null}); finally as in handleConnect.
handleDisconnect_settled(p) ==
    /\ Settled(p, "handleDisconnect")
    /\ connectionStatus' =
          IF calls[p].result.ok
          THEN [handlers[p].connectionStatus EXCEPT
                    !.connected = FALSE, !.current_config = None]
          ELSE connectionStatus
    /\ isLoading' = FALSE
    /\ loadConnectionStatus(p)
    /\ UNCHANGED <<currentConfig, showServerList, mounted, backend>>

\* "Fetch Server Configs": setIsLoading(true), invoke("fetch_config_list").
handleLoadFromServer(p) ==
    /\ mounted /\ ~isLoading /\ Slot(p)
    /\ isLoading' = TRUE
    /\ Await(p, "handleLoadFromServer",
             [Idle EXCEPT !.op = "fetch_config_list", !.pc = "done"])
    /\ UNCHANGED <<connectionStatus, currentConfig, showServerList, mounted,
                   backend>>

\* The list arrives (setShowServerList(true)) or the command fails; finally
\* setIsLoading(false).
handleLoadFromServer_settled(p) ==
    /\ Settled(p, "handleLoadFromServer")
    /\ showServerList' \in {TRUE, showServerList}
    /\ isLoading' = FALSE
    /\ calls' = [calls EXCEPT ![p] = Idle]
    /\ handlers' = [handlers EXCEPT ![p] = NoHandler]
    /\ UNCHANGED <<connectionStatus, currentConfig, mounted, backend>>

\* A click on a server item, which isLoading does not disable:
\* setIsLoading(true), invoke("get_config_by_id", {id}).
handleSelectServerConfig(p, c) ==
    /\ mounted /\ showServerList /\ Slot(p)
    /\ isLoading' = TRUE
    /\ Await(p, "handleSelectServerConfig",
             [Idle EXCEPT !.op = "get_config_by_id", !.pc = "done",
                          !.config = c])
    /\ UNCHANGED <<connectionStatus, currentConfig, showServerList, mounted,
                   backend>>

\* A variant of handleSelectServerConfig_settled whose null and failure paths
\* do setCurrentConfig(null).
handleSelectServerConfig_settled_clearing(p) ==
    /\ Settled(p, "handleSelectServerConfig")
    /\ \/ /\ currentConfig' = Some(calls[p].config)
          /\ showServerList' = FALSE
       \/ /\ currentConfig' = None
          /\ UNCHANGED showServerList
    /\ isLoading' = FALSE
    /\ calls' = [calls EXCEPT ![p] = Idle]
    /\ handlers' = [handlers EXCEPT ![p] = NoHandler]
    /\ UNCHANGED <<connectionStatus, mounted, backend>>

\* The config arrives (setCurrentConfig, setShowServerList(false)), or null,
\* or the command fails; finally setIsLoading(false).
handleSelectServerConfig_settled(p) ==
    /\ Settled(p, "handleSelectServerConfig")
    /\ \/ /\ currentConfig' = Some(calls[p].config)
          /\ showServerList' = FALSE
       \/ UNCHANGED <<currentConfig, showServerList>>
    /\ isLoading' = FALSE
    /\ calls' = [calls EXCEPT ![p] = Idle]
    /\ handlers' = [handlers EXCEPT ![p] = NoHandler]
    /\ UNCHANGED <<connectionStatus, mounted, backend>>

----------------------------------------------------------------------------
\* The manual config box: a text is a sequence of lines, a line is the key
\* it starts with and the characters that follow "<key> =" (a section marker
\* has no such part); a value is a sequence of characters.

\* Longest value of a key field, in characters.
MaxValueLen == 2

Line(key, value) == [key |-> key, value |-> value]

Highest(S) == CHOOSE x \in S : \A y \in S : y <= x

\* String.prototype.trim, for the blanks a value can hold.
Trim(v) ==
    LET solid == {i \in 1..Len(v) : v[i] # " "}
    IN  IF solid = {} THEN <<>> ELSE SubSeq(v, Lowest(solid), Highest(solid))

\* trimmed.split("=")[1]?.trim() on a line that starts with "<key> =": the
\* characters between the first "=" of the line and the next one, trimmed.
SplitValue(v) ==
    LET eqs == {i \in 1..Len(v) : v[i] = "="}
    IN  Trim(IF eqs = {} THEN v ELSE SubSeq(v, 1, Lowest(eqs) - 1))

\* A variant of  x || d  that keeps the empty string.
OrElseNothing(v, d) == v

\* JavaScript's  x || d  on strings: the empty string is falsy.
OrElse(v, d) == IF v = <<>> THEN d ELSE v

DefaultAllowedIPs == <<"0.0.0.0/0">>

\* The object handleApplyManualConfig starts from.
BlankConfig ==
    [name |-> "Manual Config", private_key |-> <<>>, public_key |-> <<>>,
     endpoint |-> <<>>, allowed_ips |-> DefaultAllowedIPs, address |-> <<>>,
     dns |-> None, persistent_keepalive |-> None]

\* A variant of the loop body without the Address branch.
ParseLineWithoutAddress(cfg, line) ==
    LET v == SplitValue(line.value)
    IN  CASE line.key = "PrivateKey" -> [cfg EXCEPT !.private_key = v]
          [] line.key = "PublicKey" -> [cfg EXCEPT !.public_key = v]
          [] line.key = "Endpoint" -> [cfg EXCEPT !.endpoint = v]
          [] line.key = "DNS" -> [cfg EXCEPT !.dns = Some(v)]
          [] line.key = "AllowedIPs" ->
                [cfg EXCEPT !.allowed_ips = OrElse(v, DefaultAllowedIPs)]
          [] OTHER -> cfg

\* One turn of the for loop: the if / else-if chain over startsWith.
ParseLine(cfg, line) ==
    LET v == SplitValue(line.value)
    IN  CASE line.key = "PrivateKey" -> [cfg EXCEPT !.private_key = v]
          [] line.key = "PublicKey" -> [cfg EXCEPT !.public_key = v]
          [] line.key = "Endpoint" -> [cfg EXCEPT !.endpoint = v]
          [] line.key = "Address" -> [cfg EXCEPT !.address = v]
          [] line.key = "DNS" -> [cfg EXCEPT !.dns = Some(v)]
          [] line.key = "AllowedIPs" ->
                [cfg EXCEPT !.allowed_ips = OrElse(v, DefaultAllowedIPs)]
          [] OTHER -> cfg

RECURSIVE ParseLines(_, _)
ParseLines(cfg, lines) ==
    IF lines = <<>> THEN cfg
    ELSE ParseLines(ParseLine(cfg, Head(lines)), Tail(lines))

\* A variant of the check after the loop that leaves the endpoint out.
AcceptedWithoutEndpoint(cfg) ==
    cfg.private_key # <<>> /\ cfg.public_key # <<>>

\* The check after the loop.
Accepted(cfg) ==
    cfg.private_key # <<>> /\ cfg.public_key # <<>> /\ cfg.endpoint # <<>>

\* !manualConfig.trim(): the box is empty or holds only blank lines.
Blank(text) ==
    \A i \in 1..Len(text) : text[i].key = "" /\ Trim(text[i].value) = <<>>

\* "Apply Manual Config", which has no await: an empty box and a config
\* without PrivateKey, PublicKey or Endpoint only show a message; otherwise
\* setCurrentConfig(parsedConfig).
handleApplyManualConfig ==
    /\ ~isLoading
    /\ LET cfg == ParseLines(BlankConfig, manualConfig)
       IN  IF Blank(manualConfig)
           THEN /\ statusMessage' = "Please enter a config"
                /\ UNCHANGED <<currentConfig, parsedConfig>>
           ELSE IF ~Accepted(cfg)
           THEN /\ statusMessage' =
                    "Invalid config format. Please provide a valid WireGuard config."
                /\ UNCHANGED <<currentConfig, parsedConfig>>
           ELSE /\ statusMessage' = "Config loaded successfully"
                /\ currentConfig' = Some(cfg.name)
                /\ parsedConfig' = Some(cfg)
    /\ UNCHANGED <<connectionStatus, isLoading, showServerList, mounted,
                   handlers, manualConfig, sent, calls, backend>>

\* ConfigCodec.serialize: the two-section text, DNS and PersistentKeepalive
\* only when present.
KeyValue(key, v) == Line(key, <<" ">> \o v)

Serialize(c) ==
    <<Line("[Interface]", <<>>), KeyValue("PrivateKey", c.private_key),
      KeyValue("Address", c.address)>>
    \o (IF c.dns = None THEN <<>> ELSE <<KeyValue("DNS", c.dns[1])>>)
    \o <<Line("[Peer]", <<>>), KeyValue("PublicKey", c.public_key),
         KeyValue("Endpoint", c.endpoint),
         KeyValue("AllowedIPs", c.allowed_ips)>>
    \o (IF c.persistent_keepalive = None THEN <<>>
        ELSE <<KeyValue("PersistentKeepalive", c.persistent_keepalive[1])>>)

\* The texts of keys: base64, which may end in "=" padding.
KeyTexts ==
    {v \in UNION {[1..n -> {"k", "="}] : n \in 1..MaxValueLen} : v[1] = "k"}

\* Configs with every required field present.
ValidConfigs ==
    [name : {"Manual Config"}, private_key : KeyTexts, public_key : KeyTexts,
     endpoint : {<<"vpn.example.com:51820">>}, address : {<<"10.0.0.2/24">>},
     allowed_ips : {DefaultAllowedIPs, <<"10.0.0.0/8">>},
     dns : {None, Some(<<"1.1.1.1">>)},
     persistent_keepalive : {None, Some(<<"25">>)}]

SerializedKeys == {"PrivateKey", "Address", "PublicKey", "Endpoint", "AllowedIPs"}

\* text without the lines of the keys in keys.
Without(text, keys) == SelectSeq(text, LAMBDA l : l.key \notin keys)

\* A text of blanks only.
BlankText == <<Line("", <<" ">>), Line("", <<>>)>>

\* text with nothing but a blank after the "=" of the key's line.
Blanked(text, key) ==
    [i \in 1..Len(text) |->
        IF text[i].key = key THEN Line(key, <<" ">>) ELSE text[i]]

\* What is pasted: a serialized config, whole, with up to two keys left out
\* or with the value of one key left blank, or nothing.
Texts ==
    {<<>>, BlankText}
    \cup {Without(Serialize(c), keys) :
            c \in ValidConfigs,
            keys \in {k \in SUBSET SerializedKeys : Cardinality(k) <= 2}}
    \cup {Blanked(Serialize(c), key) : c \in ValidConfigs, key \in SerializedKeys}

----------------------------------------------------------------------------
\* History kept for the concurrency claims.

\* serial: the apply_config and disconnect invocations have run one after
\* the other so far, no two of them in flight at once.
Serially ==
    serial' = (serial /\ Cardinality({q \in Procs : IsMutation(calls'[q])
                                         /\ InFlight(calls'[q])}) <= 1)

\* quiet: the statuses of the last instant at which no apply_config or
\* disconnect was in flight.  obs[p]: the statuses the manager has had since
\* the status call p was invoked, and quiet at that moment.
Observe ==
    /\ Serially
    /\ UNCHANGED ui
    /\ UNCHANGED paste
    /\ quiet' = IF \E q \in Procs : IsMutation(calls'[q]) /\ InFlight(calls'[q])
                THEN quiet
                ELSE StatusNow(ACTIVE_CONNECTION', interfaces')
    /\ obs' = [p \in Procs |->
                 IF calls'[p].op # "get_connection_status" THEN {}
                 ELSE (IF calls[p].op = "get_connection_status"
                       THEN obs[p]
                       ELSE quiet \cup StatusNow(ACTIVE_CONNECTION, interfaces))
                      \cup StatusNow(ACTIVE_CONNECTION', interfaces')]

Start ==
    /\ host \in {"unsupported", "not_installed", "ready"}
    /\ ACTIVE_CONNECTION = None
    /\ interfaces = {}
    /\ artifacts = {}
    /\ calls = [p \in Procs |-> Idle]
    /\ serial = TRUE
    /\ quiet = {Disconnected}
    /\ obs = [p \in Procs |-> {}]
    /\ connectionStatus = Disconnected
    /\ currentConfig = None
    /\ isLoading = FALSE
    /\ showServerList = FALSE
    /\ mounted = FALSE
    /\ handlers = [p \in Procs |-> NoHandler]
    /\ parsedConfig = None
    /\ statusMessage = ""
    /\ sent = [p \in Procs |-> None]

\* useState(""): the manual config box starts empty.
Init == Start /\ manualConfig = <<>>

hist == <<quiet, obs>>

Unobserved == Serially /\ UNCHANGED hist /\ UNCHANGED ui /\ UNCHANGED paste

Rendered == Serially /\ UNCHANGED hist /\ UNCHANGED paste

Next ==
    \/ \E p \in Procs, c \in ConfigNames : InvokeApply(p, c) /\ Unobserved
    \/ \E p \in Procs : InvokeDisconnect(p) /\ Unobserved
    \/ \E p \in Procs : InvokeGetStatus(p) /\ Unobserved
    \/ \E p \in Procs : Return(p) /\ Unobserved
    \/ \E p \in Procs : apply_config_start(p) /\ Unobserved
    \/ \E p \in Procs : platform_write_config(p) /\ Unobserved
    \/ \E p \in Procs : platform_wg_quick_up(p) /\ Unobserved
    \/ \E p \in Procs : apply_config_track(p) /\ Unobserved
    \/ \E p \in Procs : apply_config_tracked(p) /\ Unobserved
    \/ \E p \in Procs : disconnect_start(p) /\ Unobserved
    \/ \E p \in Procs : platform_wg_quick_down(p) /\ Unobserved
    \/ \E p \in Procs : disconnect_clear(p) /\ Unobserved
    \/ \E p \in Procs : disconnect_cleared(p) /\ Unobserved
    \/ \E p \in Procs : get_connection_status_start(p) /\ Unobserved
    \/ \E p \in Procs : platform_get_status(p) /\ Unobserved

Spec == Init /\ [][Next]_vars

\* The next step of the command p is running: each command is an async fn
\* the runtime drives to its end, and the helper it awaits answers or is
\* killed at the timeout.
Advance(p) ==
    \/ apply_config_start(p)
    \/ platform_write_config(p)
    \/ platform_wg_quick_up(p)
    \/ apply_config_track(p)
    \/ apply_config_tracked(p)
    \/ disconnect_start(p)
    \/ platform_wg_quick_down(p)
    \/ disconnect_clear(p)
    \/ disconnect_cleared(p)
    \/ get_connection_status_start(p)
    \/ platform_get_status(p)

\* The commands under a runtime that keeps running every command in flight.
SpecLive ==
    Init /\ [][Next]_vars /\ \A p \in Procs : WF_vars(Advance(p) /\ Unobserved)

\* The same commands, with the status history recorded.
NextObs ==
    \/ \E p \in Procs, c \in ConfigNames : InvokeApply(p, c) /\ Observe
    \/ \E p \in Procs : InvokeDisconnect(p) /\ Observe
    \/ \E p \in Procs : InvokeGetStatus(p) /\ Observe
    \/ \E p \in Procs : Return(p) /\ Observe
    \/ \E p \in Procs : apply_config_start(p) /\ Observe
    \/ \E p \in Procs : platform_write_config(p) /\ Observe
    \/ \E p \in Procs : platform_wg_quick_up(p) /\ Observe
    \/ \E p \in Procs : apply_config_track(p) /\ Observe
    \/ \E p \in Procs : apply_config_tracked(p) /\ Observe
    \/ \E p \in Procs : disconnect_start(p) /\ Observe
    \/ \E p \in Procs : platform_wg_quick_down(p) /\ Observe
    \/ \E p \in Procs : disconnect_clear(p) /\ Observe
    \/ \E p \in Procs : disconnect_cleared(p) /\ Observe
    \/ \E p \in Procs : get_connection_status_start(p) /\ Observe
    \/ \E p \in Procs : platform_get_status(p) /\ Observe

SpecObs == Init /\ [][NextObs]_vars

\* The App as the only caller of the commands.
NextApp ==
    \/ \E p \in Procs : useEffect(p) /\ Rendered
    \/ \E p \in Procs : loadConnectionStatus_settled(p) /\ Rendered
    \/ \E p \in Procs : handleConnect(p) /\ Rendered
    \/ \E p \in Procs : handleConnect_settled(p) /\ Rendered
    \/ \E p \in Procs : handleDisconnect(p) /\ Rendered
    \/ \E p \in Procs : handleDisconnect_settled(p) /\ Rendered
    \/ \E p \in Procs : handleLoadFromServer(p) /\ Rendered
    \/ \E p \in Procs : handleLoadFromServer_settled(p) /\ Rendered
    \/ \E p \in Procs, c \in ServerConfigNames :
            handleSelectServerConfig(p, c) /\ Rendered
    \/ \E p \in Procs : handleSelectServerConfig_settled(p) /\ Rendered
    \/ \E p \in Procs : apply_config_start(p) /\ Unobserved
    \/ \E p \in Procs : platform_write_config(p) /\ Unobserved
    \/ \E p \in Procs : platform_wg_quick_up(p) /\ Unobserved
    \/ \E p \in Procs : apply_config_track(p) /\ Unobserved
    \/ \E p \in Procs : apply_config_tracked(p) /\ Unobserved
    \/ \E p \in Procs : disconnect_start(p) /\ Unobserved
    \/ \E p \in Procs : platform_wg_quick_down(p) /\ Unobserved
    \/ \E p \in Procs : disconnect_clear(p) /\ Unobserved
    \/ \E p \in Procs : disconnect_cleared(p) /\ Unobserved
    \/ \E p \in Procs : get_connection_status_start(p) /\ Unobserved
    \/ \E p \in Procs : platform_get_status(p) /\ Unobserved

SpecApp == Init /\ [][NextApp]_vars

\* The manual config box alone: any text pasted, then the button.
InitCodec == Start /\ manualConfig \in Texts

NextCodec == handleApplyManualConfig /\ Serially /\ UNCHANGED hist

SpecCodec == InitCodec /\ [][NextCodec]_vars

\* What is pasted when the config is then connected with: one config's
\* text, whole or without its Address or its Endpoint line, or nothing.
PastedTexts ==
    {<<>>} \cup
    {Without(Serialize(c), keys) :
        c \in {v \in ValidConfigs : /\ v.private_key = <<"k">>
                                    /\ v.public_key = <<"k">>
                                    /\ v.dns = None
                                    /\ v.persistent_keepalive = None},
        keys \in {{}, {"Address"}, {"Endpoint"}}}

\* What handleConnect does besides: without a config,
\* showStatus("Please select or enter a config first"); with one,
\* invoke("apply_config", { config: currentConfig }), the config that goes
\* with the command being the one the manual config box has set.
Sends(p) ==
    /\ Serially
    /\ UNCHANGED hist
    /\ UNCHANGED <<manualConfig, parsedConfig>>
    /\ statusMessage' = IF currentConfig = None
                        THEN "Please select or enter a config first"
                        ELSE statusMessage
    /\ sent' = [sent EXCEPT ![p] = IF calls'[p].op = "apply_config"
                                   THEN parsedConfig ELSE sent[p]]

InitPaste == Start /\ manualConfig \in PastedTexts

\* The App with a manual config: paste, apply, connect, disconnect.
NextPaste ==
    \/ \E p \in Procs : useEffect(p) /\ Rendered
    \/ \E p \in Procs : loadConnectionStatus_settled(p) /\ Rendered
    \/ handleApplyManualConfig /\ Serially /\ UNCHANGED hist
    \/ \E p \in Procs : handleConnect(p) /\ Sends(p)
    \/ \E p \in Procs : handleConnect_settled(p) /\ Rendered
    \/ \E p \in Procs : handleDisconnect(p) /\ Rendered
    \/ \E p \in Procs : handleDisconnect_settled(p) /\ Rendered
    \/ \E p \in Procs : apply_config_start(p) /\ Unobserved
    \/ \E p \in Procs : platform_write_config(p) /\ Unobserved
    \/ \E p \in Procs : platform_wg_quick_up(p) /\ Unobserved
    \/ \E p \in Procs : apply_config_track(p) /\ Unobserved
    \/ \E p \in Procs : apply_config_tracked(p) /\ Unobserved
    \/ \E p \in Procs : disconnect_start(p) /\ Unobserved
    \/ \E p \in Procs : platform_wg_quick_down(p) /\ Unobserved
    \/ \E p \in Procs : disconnect_clear(p) /\ Unobserved
    \/ \E p \in Procs : disconnect_cleared(p) /\ Unobserved
    \/ \E p \in Procs : get_connection_status_start(p) /\ Unobserved
    \/ \E p \in Procs : platform_get_status(p) /\ Unobserved

SpecPaste == InitPaste /\ [][NextPaste]_vars

\* What is pasted where the config can also come from the server: blanks,
\* the five-key text, or that text without its Endpoint line.
ConfigTexts ==
    {BlankText}
    \cup {Without(Serialize(c), keys) :
            c \in {v \in ValidConfigs : /\ v.private_key = <<"k">>
                                        /\ v.public_key = <<"k">>
                                        /\ v.allowed_ips = DefaultAllowedIPs
                                        /\ v.dns = None
                                        /\ v.persistent_keepalive = None},
            keys \in {{}, {"Endpoint"}}}

InitConfig == Start /\ host = "ready" /\ manualConfig \in ConfigTexts

\* At most one command is running in the backend after the step.
Orderly == Cardinality({q \in Procs : InFlight(calls'[q])}) <= 1

\* The App with both sources of its current config, on a host where the
\* helper is installed, in the executions whose backend commands run one
\* after the other; get_config_by_id answers from the server and may arrive
\* while a command is running.
NextConfig ==
    \/ \E p \in Procs : useEffect(p) /\ Rendered /\ Orderly
    \/ \E p \in Procs : loadConnectionStatus_settled(p) /\ Rendered /\ Orderly
    \/ handleApplyManualConfig /\ Serially /\ UNCHANGED hist
    \/ \E p \in Procs : handleConnect(p) /\ Rendered /\ Orderly
    \/ \E p \in Procs : handleConnect_settled(p) /\ Rendered /\ Orderly
    \/ \E p \in Procs : handleDisconnect(p) /\ Rendered /\ Orderly
    \/ \E p \in Procs : handleDisconnect_settled(p) /\ Rendered /\ Orderly
    \/ \E p \in Procs : handleLoadFromServer(p) /\ Rendered /\ Orderly
    \/ \E p \in Procs : handleLoadFromServer_settled(p) /\ Rendered /\ Orderly
    \/ \E p \in Procs, c \in ServerConfigNames :
            handleSelectServerConfig(p, c) /\ Rendered /\ Orderly
    \/ \E p \in Procs : handleSelectServerConfig_settled(p) /\ Rendered /\ Orderly
    \/ \E p \in Procs : apply_config_start(p) /\ Unobserved /\ Orderly
    \/ \E p \in Procs : platform_write_config(p) /\ Unobserved /\ Orderly
    \/ \E p \in Procs : platform_wg_quick_up(p) /\ Unobserved /\ Orderly
    \/ \E p \in Procs : apply_config_track(p) /\ Unobserved /\ Orderly
    \/ \E p \in Procs : apply_config_tracked(p) /\ Unobserved /\ Orderly
    \/ \E p \in Procs : disconnect_start(p) /\ Unobserved /\ Orderly
    \/ \E p \in Procs : platform_wg_quick_down(p) /\ Unobserved /\ Orderly
    \/ \E p \in Procs : disconnect_clear(p) /\ Unobserved /\ Orderly
    \/ \E p \in Procs : disconnect_cleared(p) /\ Unobserved /\ Orderly
    \/ \E p \in Procs : get_connection_status_start(p) /\ Unobserved /\ Orderly
    \/ \E p \in Procs : platform_get_status(p) /\ Unobserved /\ Orderly

SpecConfig == InitConfig /\ [][NextConfig]_vars

----------------------------------------------------------------------------
\* Readings shared by the claims

\* The first step of p's call of op is being taken.
Starts(p, op) ==
    calls[p].op = op /\ calls[p].pc = "start" /\ calls'[p].pc # "start"

\* p's call of op takes its last step and has its result.
Finishes(p, op) ==
    calls[p].op = op /\ calls[p].pc # "done" /\ calls'[p].pc = "done"

\* No command is running: every invocation is idle or has returned.
AtRest == \A p \in Procs : ~InFlight(calls[p])

Reasons == {"NotInstalled", "PermissionDenied", "ExecutionFailed", "TimedOut"}

----------------------------------------------------------------------------
\* C1 (as claimed): an apply_config that starts while an ActiveConnection is
\* tracked, no other apply_config or disconnect being present, returns
\* AlreadyConnected at once: it goes no further towards bring_up and leaves
\* ACTIVE_CONNECTION and the host's interfaces as they are.
C1_NoDoubleConnect ==
    [][\A p \in Procs :
         (Starts(p, "apply_config") /\ ACTIVE_CONNECTION # None /\ serial)
         => /\ calls'[p].pc = "done"
            /\ calls'[p].result = Err("AlreadyConnected")
            /\ ACTIVE_CONNECTION' = ACTIVE_CONNECTION
            /\ interfaces' = interfaces]_vars

\* The precondition shared by C2's two statements: p's disconnect takes its
\* first step while the manager is Disconnected.
C2_Pre(p) ==
    Starts(p, "disconnect") /\ ACTIVE_CONNECTION = None /\ Writers = {}

C4_DisconnectOutcome ==
    [][\A p \in Procs :
         (Finishes(p, "disconnect") /\ calls[p].outcome # "" /\ serial)
         => IF calls[p].outcome \in {"ok", "InterfaceNotFound"}
            THEN calls'[p].result.ok /\ ACTIVE_CONNECTION' = None
            ELSE /\ calls'[p].result = Err(calls[p].outcome)
                 /\ ACTIVE_CONNECTION' = ACTIVE_CONNECTION
                 /\ IfaceOf(ACTIVE_CONNECTION) = calls[p].iface]_vars

\* C5 (as claimed): an apply_config that returns one of the listed failures,
\* the commands having run one after the other, leaves nothing tracked, and
\* the config file it wrote is gone.
C5_ApplyFailure ==
    [][\A p \in Procs :
         (/\ Finishes(p, "apply_config")
          /\ ~calls'[p].result.ok /\ calls'[p].result.kind \in Reasons
          /\ serial)
         => /\ ACTIVE_CONNECTION' = None
            /\ calls[p].iface = None \/ calls[p].iface[1] \notin artifacts']_vars

\* The invariant of ConnectionStatus: the two optional fields are present
\* exactly when connected is true.
WellFormed(s) ==
    /\ s.connected => (s.current_config # None /\ s.interface # None)
    /\ ~s.connected => (s.current_config = None /\ s.interface = None)

\* C6 (as claimed): the status the App holds, and every status a
\* get_connection_status call returned, has current_config and interface
\* present exactly when connected is true.
C6_ConnectionStatusInvariant ==
    /\ WellFormed(connectionStatus)
    /\ \A p \in Procs :
          (calls[p].op = "get_connection_status" /\ calls[p].pc = "done")
          => WellFormed(calls[p].status)

\* C7 (as claimed): the commands having run one after the other, the status
\* right after an apply_config returned success is connected with the
\* applied config's name and the interface bring_up gave; right after a
\* disconnect returned from a bring_down that succeeded or found no
\* interface, it is the disconnected one.
C7_StatusConsistency ==
    [][\A p \in Procs :
         serial
         => /\ (Finishes(p, "apply_config") /\ calls'[p].result.ok)
               => StatusNow(ACTIVE_CONNECTION', interfaces') =
                    {ConnectedVia(Connection(calls[p].iface[1], calls[p].config))}
            /\ (Finishes(p, "disconnect")
                   /\ calls[p].outcome \in {"ok", "InterfaceNotFound"})
               => StatusNow(ACTIVE_CONNECTION', interfaces') = {Disconnected}]_vars

\* The state-mutating section of apply_config runs from the installed check
\* to the write of ACTIVE_CONNECTION, that of disconnect from the read of
\* ACTIVE_CONNECTION to its write.
InSection(p) ==
    /\ IsMutation(calls[p])
    /\ calls[p].pc \in {"write_config", "wg_quick_up", "track", "tracking",
                        "wg_quick_down", "clear", "clearing"}

\* C8 (as claimed): at most one apply_config or disconnect is inside its
\* state-mutating section, so no two write ACTIVE_CONNECTION at once and no
\* two apply_config calls are both at bring_up.
C8_MutualExclusion ==
    /\ Cardinality({p \in Procs : InSection(p)}) <= 1
    /\ Cardinality(Writers) <= 1

\* C9 (as claimed): a status call that has returned, all commands having
\* come to rest, returned a status the manager had at some instant from the
\* start of the apply_config or disconnect it ran along with until now.
C9_ConsistentSnapshot ==
    \A p \in Procs :
        (/\ calls[p].op = "get_connection_status" /\ calls[p].pc = "done"
         /\ AtRest)
        => calls[p].status \in obs[p]

\* C10 (as claimed): with no command running, the commands so far having
\* run one after the other, a config file exists on disk
\* exactly when a connection is tracked, and the tracked connection's config
\* file (named after its interface) is present.
C10_ArtifactLifetime ==
    (AtRest /\ serial)
    => /\ (artifacts # {}) <=> (ACTIVE_CONNECTION # None)
       /\ ACTIVE_CONNECTION # None
            => ACTIVE_CONNECTION[1].interface \in artifacts

\* p's call wrote a config file / ran wg-quick down on an interface.
WroteFile(p) == calls[p].op = "apply_config" /\ calls[p].iface # None
RanDown(p) == calls[p].op = "disconnect" /\ calls[p].outcome # ""

C12_TimeoutIsFailure ==
    [][\A p \in Procs :
         /\ (Finishes(p, "apply_config") /\ calls[p].outcome = "TimedOut"
                /\ serial)
            => /\ calls'[p].result = Err("TimedOut")
               /\ ACTIVE_CONNECTION' = None
         /\ (Finishes(p, "disconnect") /\ calls[p].outcome = "TimedOut"
                /\ serial)
            => /\ calls'[p].result = Err("TimedOut")
               /\ ACTIVE_CONNECTION' = ACTIVE_CONNECTION
               /\ IfaceOf(ACTIVE_CONNECTION) = calls[p].iface]_vars

Statuses ==
    {Disconnected} \cup
    {ConnectedVia(Connection(i, n)) : i \in IfNames, n \in ConfigNames}

\* C14: every step of a get_connection_status call leaves ACTIVE_CONNECTION,
\* the interfaces and the config files (and so the manager's state) as they
\* are; the call carries no error, and what it returns is a status.
C14_StatusIsPureRead ==
    [][\A p \in Procs :
         (calls[p].op = "get_connection_status" /\ calls'[p] # calls[p])
         => /\ UNCHANGED backend
            /\ StatusNow(ACTIVE_CONNECTION', interfaces')
                 = StatusNow(ACTIVE_CONNECTION, interfaces)
            /\ calls[p].result = NoResult
            /\ Finishes(p, "get_connection_status")
                 => calls'[p].result = NoResult /\ calls'[p].status \in Statuses
       ]_vars

\* A get_connection_status call has returned the connected status while a
\* connection is tracked and its config file is on disk.
C14_Witness ==
    \E p \in Procs :
        /\ calls[p].op = "get_connection_status" /\ calls[p].pc = "done"
        /\ calls[p].status.connected
        /\ ACTIVE_CONNECTION # None
        /\ ACTIVE_CONNECTION[1].interface \in artifacts

\* One of the four required fields of the config is empty.
Incomplete(cfg) ==
    \/ cfg.private_key = <<>> \/ cfg.public_key = <<>>
    \/ cfg.endpoint = <<>> \/ cfg.address = <<>>

\* C15 (as claimed): an apply_config called with a config that has an empty
\* required field goes no further than its start: it writes no config file,
\* never comes to bring_up, and where the helper is installed what it returns
\* is ValidationError; so a pasted config with an empty address never reaches
\* the platform.
C15_IncompleteConfigRejected ==
    \A p \in Procs :
        (/\ calls[p].op = "apply_config"
         /\ sent[p] # None /\ Incomplete(sent[p][1]))
        => /\ calls[p].pc \in {"start", "done"}
           /\ calls[p].iface = None
           /\ (host = "ready" /\ calls[p].pc = "done")
                => calls[p].result = Err("ValidationError")

\* C16: where the helper tool is not installed, the first step of an
\* apply_config is its last: it returns the not-installed error, has written
\* no config file and run no helper, and nothing is tracked, no interface is
\* up and no config file exists afterwards.
C16_NotInstalled ==
    [][\A p \in Procs :
         (Starts(p, "apply_config") /\ host = "not_installed")
         => /\ calls'[p].pc = "done"
            /\ calls'[p].result = Err("NotInstalled")
            /\ calls'[p].iface = None /\ calls'[p].outcome = ""
            /\ UNCHANGED backend
            /\ ACTIVE_CONNECTION' = None
            /\ interfaces' = {} /\ artifacts' = {}]_vars

\* An apply_config has returned the not-installed error.
C16_Witness ==
    \E p \in Procs :
        /\ host = "not_installed"
        /\ calls[p].op = "apply_config" /\ calls[p].pc = "done"
        /\ calls[p].result = Err("NotInstalled")

\* The helper has run for p's call: bring_up, bring_down.
HelperRan(c) == c.outcome # ""

\* C17: once the helper has run for a call (bring_up for an apply_config,
\* bring_down for a disconnect), whatever its outcome, that call never comes
\* back to the helper: it keeps the outcome it has and only goes on to its
\* return.
C17_NoRetry ==
    [][\A p \in Procs :
         (IsMutation(calls[p]) /\ HelperRan(calls[p])
            /\ calls'[p].op = calls[p].op)
         => /\ calls'[p].outcome = calls[p].outcome
            /\ calls'[p].pc \in {"track", "tracking", "clear", "clearing",
                                  "done"}]_vars

\* An apply_config whose bring_up failed and a disconnect whose bring_down
\* failed have both returned their error.
C17_Witness ==
    \E p, q \in Procs :
        /\ calls[p].op = "apply_config" /\ calls[p].pc = "done"
        /\ calls[p].outcome = "ExecutionFailed" /\ calls[p].iface # None
        /\ calls[q].op = "disconnect" /\ calls[q].pc = "done"
        /\ calls[q].outcome = "PermissionDenied"

\* The error kinds of the manager's boundary (NotInstalled standing for
\* ToolNotInstalled).
ErrorKinds == Reasons \cup {"ValidationError", "AlreadyConnected"}

\* C18 (as claimed): whatever error an apply_config or a disconnect has
\* returned is one of the six kinds; in particular it is not
\* InterfaceNotFound and not an error of a lower layer passed on as it came.
C18_ErrorKinds ==
    \A p \in Procs :
        (IsMutation(calls[p]) /\ calls[p].pc = "done" /\ ~calls[p].result.ok)
        => /\ calls[p].result.kind \in ErrorKinds
           /\ calls[p].result.kind # "InterfaceNotFound"

\* No apply_config and no disconnect is running.
NoMutation ==
    \A q \in Procs : ~(IsMutation(calls[q]) /\ InFlight(calls[q]))

\* C25 (as claimed): a get_connection_status that returns while no
\* apply_config or disconnect is running, and while what it has read of
\* ACTIVE_CONNECTION is still so, returns the disconnected status if nothing
\* is tracked, whatever interfaces are up, and a connected status only with
\* the interface that is tracked.
C25_StatusOfTrackedOnly ==
    [][\A p \in Procs :
         (/\ Finishes(p, "get_connection_status") /\ NoMutation /\ serial
          /\ calls[p].pc = "get_status"
          /\ calls[p].iface = IfaceOf(ACTIVE_CONNECTION))
         => /\ ACTIVE_CONNECTION = None => calls'[p].status = Disconnected
            /\ calls'[p].status.connected
                 => /\ ACTIVE_CONNECTION # None
                    /\ calls'[p].status.interface
                         = IfaceOf(ACTIVE_CONNECTION)]_vars

----------------------------------------------------------------------------
\* Readings shared by the codec claims

\* handleApplyManualConfig has run on the text in the box.
Parsed == statusMessage # ""

RequiredKeys == {"PrivateKey", "PublicKey", "Endpoint"}

\* The box holds c's text with the lines of keys left out.
Holds(c, keys) == manualConfig = Without(Serialize(c), keys)

\* The box holds some text that has no line of the key.
Omits(key) ==
    /\ ~Blank(manualConfig)
    /\ \A i \in 1..Len(manualConfig) : manualConfig[i].key # key

MissingField(key) ==
    CASE key = "PrivateKey" -> "MissingField(PrivateKey)"
      [] key = "PublicKey" -> "MissingField(PublicKey)"
      [] key = "Endpoint" -> "MissingField(Endpoint)"

\* C19 (as claimed): once the text serialize gives for a valid config c has
\* been parsed, the config that was set equals c on every field.
C19_RoundTrip ==
    \A c \in ValidConfigs :
        (Parsed /\ Holds(c, {})) => parsedConfig = Some(c)

ScenarioText ==
    <<Line("[Interface]", <<>>),
      Line("PrivateKey", <<" ", "k">>),
      Line("Address", <<" ", "10.0.0.2/24">>),
      Line("[Peer]", <<>>),
      Line("PublicKey", <<" ", "k", "k">>),
      Line("Endpoint", <<" ", "vpn.example.com:51820">>),
      Line("AllowedIPs", <<" ", "0.0.0.0/0">>)>>

ScenarioConfig ==
    [name |-> "Manual Config", private_key |-> <<"k">>,
     public_key |-> <<"k", "k">>, endpoint |-> <<"vpn.example.com:51820">>,
     allowed_ips |-> <<"0.0.0.0/0">>, address |-> <<"10.0.0.2/24">>,
     dns |-> None, persistent_keepalive |-> None]

\* C21: once the five-key text has been parsed, the config that was set has
\* exactly those five values, dns and keepalive absent, and it is the current
\* config.
C21_ParseScenario ==
    (Parsed /\ manualConfig = ScenarioText)
    => /\ statusMessage = "Config loaded successfully"
       /\ parsedConfig = Some(ScenarioConfig)
       /\ currentConfig = Some("Manual Config")

\* The five-key text has been parsed.
C21_Witness ==
    Parsed /\ manualConfig = ScenarioText /\ currentConfig # None

\* The field of a config that a recognized key stands for.
Field(cfg, key) ==
    CASE key = "PrivateKey" -> cfg.private_key
      [] key = "PublicKey" -> cfg.public_key
      [] key = "Endpoint" -> cfg.endpoint
      [] key = "Address" -> cfg.address
      [] key = "AllowedIPs" -> cfg.allowed_ips
      [] key = "DNS" -> IF cfg.dns = None THEN <<>> ELSE cfg.dns[1]

\* The keys the loop has a branch for.
RecognizedKeys == SerializedKeys \cup {"DNS"}

\* C24 (as claimed): in the config set from a text, the field of every key
\* the parser recognizes is the value of that key's line with the blanks around it
\* removed, whatever the value, "=" included.
C24_ValueKept ==
    (Parsed /\ parsedConfig # None)
    => \A i \in 1..Len(manualConfig) :
          manualConfig[i].key \in RecognizedKeys
          => Field(parsedConfig[1], manualConfig[i].key)
                = Trim(manualConfig[i].value)

\* The values of the lines of the key in the box, blanks around them removed.
ValuesOf(key) ==
    {Trim(manualConfig[i].value) :
        i \in {j \in 1..Len(manualConfig) : manualConfig[j].key = key}}

\* C26: in the config set from a text, allowed_ips is 0.0.0.0/0 when the text
\* has no AllowedIPs line or one with an empty value, and the value of the
\* AllowedIPs line otherwise.
C26_AllowedIPsDefault ==
    (Parsed /\ parsedConfig # None)
    => IF ValuesOf("AllowedIPs") \subseteq {<<>>}
       THEN parsedConfig[1].allowed_ips = <<"0.0.0.0/0">>
       ELSE ValuesOf("AllowedIPs") = {parsedConfig[1].allowed_ips}

\* A config was set from a text whose AllowedIPs line has an empty value.
C26_Witness ==
    /\ Parsed /\ parsedConfig # None
    /\ ValuesOf("AllowedIPs") = {<<>>}

----------------------------------------------------------------------------
\* Readings shared by the App claims

\* The App invokes the command op in slot p.
Invokes(p, op) == calls[p].op # op /\ calls'[p].op = op

\* The connect button can be clicked: the App is rendered, the button is not
\* disabled, and an invocation can be made.
Clickable == mounted /\ ~isLoading /\ \E q \in Procs : Free(q)

\* C23: apply_config is invoked only while the status the App holds is
\* disconnected and a current config is set, and with that config;
\* disconnect is invoked only while the status the App holds is connected;
\* and a click on the button in either situation does invoke the command.
C23_ButtonDispatch ==
    [][/\ \A p \in Procs :
            /\ Invokes(p, "apply_config")
               => /\ ~connectionStatus.connected
                  /\ currentConfig # None
                  /\ calls'[p].config = currentConfig[1]
            /\ Invokes(p, "disconnect") => connectionStatus.connected
       /\ (Clickable /\ ~connectionStatus.connected /\ currentConfig # None)
          => ENABLED (\E p \in Procs :
                        handleConnect(p) /\ Invokes(p, "apply_config"))
       /\ (Clickable /\ connectionStatus.connected)
          => ENABLED (\E p \in Procs :
                        handleDisconnect(p) /\ Invokes(p, "disconnect"))
      ]_vars

\* A click has invoked disconnect, the App holding the connected status with
\* the config it connected with.
C23_Witness ==
    \E p \in Procs :
        /\ handlers[p].name = "handleDisconnect"
        /\ calls[p].op = "disconnect"
        /\ connectionStatus.connected
        /\ connectionStatus.current_config = currentConfig

\* C27 (as claimed): of the apply_config and disconnect commands the App
\* has invoked, at most one has not settled yet.
C27_OneCommandInFlight ==
    Cardinality({p \in Procs : IsMutation(calls[p])}) <= 1

\* Every command the App has invoked has settled.
AllSettled == mounted /\ \A p \in Procs : Free(p)

\* C28 (as claimed): once every command the App has invoked has settled, the
\* connectionStatus it holds is the status the backend has.
C28_StatusConverges ==
    AllSettled
    => connectionStatus \in StatusNow(ACTIVE_CONNECTION, interfaces)

\* C29: apply_config is invoked only with a current config set, which goes
\* with it; the step that shows "Please select or enter a config first" is
\* taken without a current config and leaves isLoading, connectionStatus and
\* the commands as they are; and a click on Connect without a current
\* config is such a step.
C29_ConnectWithoutConfig ==
    [][/\ \A p \in Procs :
            Invokes(p, "apply_config")
            => currentConfig # None /\ sent'[p] = parsedConfig
       /\ (/\ statusMessage' = "Please select or enter a config first"
           /\ statusMessage' # statusMessage)
          => /\ currentConfig = None
             /\ UNCHANGED <<isLoading, connectionStatus, currentConfig, calls,
                            handlers, backend>>
       /\ (Clickable /\ ~connectionStatus.connected /\ currentConfig = None)
          => ENABLED (\E p \in Procs :
                /\ handleConnect(p) /\ Sends(p)
                /\ statusMessage' = "Please select or enter a config first"
                /\ UNCHANGED <<isLoading, connectionStatus, calls>>)
      ]_vars

\* Connect was clicked without a current config: the message is shown and no
\* command has been invoked for it.
C29_Witness ==
    /\ statusMessage = "Please select or enter a config first"
    /\ currentConfig = None /\ ~isLoading
    /\ \A p \in Procs : ~IsMutation(calls[p])

\* C30: the current config changes only in a step of "Apply Manual Config"
\* on a text that is not blank and gives PrivateKey, PublicKey and Endpoint
\* non-empty, which sets the parsed config, or in the step in which a
\* get_config_by_id settles with a config, which sets that config; every
\* other step, the rejecting ones included, leaves it as it is.
C30_CurrentConfigFrame ==
    [][currentConfig' # currentConfig
       => \/ /\ ~Blank(manualConfig)
             /\ Accepted(ParseLines(BlankConfig, manualConfig))
             /\ statusMessage' = "Config loaded successfully"
             /\ parsedConfig' = Some(ParseLines(BlankConfig, manualConfig))
             /\ currentConfig' = Some("Manual Config")
             /\ UNCHANGED calls
          \/ \E p \in Procs :
                /\ Settled(p, "handleSelectServerConfig")
                /\ calls'[p] = Idle
                /\ currentConfig' = Some(calls[p].config)]_vars

\* A config taken from the server is still the current config after a text
\* without Endpoint was rejected and a connect with it has failed.
C30_Witness ==
    /\ currentConfig = Some("US East Server")
    /\ statusMessage =
          "Invalid config format. Please provide a valid WireGuard config."
    /\ \E p \in Procs :
          /\ handlers[p].name = "handleConnect"
          /\ calls[p].pc = "done" /\ ~calls[p].result.ok

====
